---- MODULE Spec2Model ----
(***************************************************************************)
(* Model of the entity indexer of Sams_Tools (tool__table_indexer.py):     *)
(* TableIndexer.index and the helpers it calls, over Spark DataFrames      *)
(* modelled as values; of the session manager (tool__workstation.py) as    *)
(* far as it holds, stops and creates Spark sessions; and of the column    *)
(* names polish() returns (tool__table_polisher.py).                       *)
(*                                                                         *)
(* Text is a sequence of one-character strings, so that trimming, case     *)
(* folding, the leading-zero regular expression and the lexicographic      *)
(* order of Window.orderBy are computed, not assumed.  SQL NULL text is    *)
(* the value Null; a NULL index is NullIndex.                              *)
(***************************************************************************)
EXTENDS Integers, Sequences, FiniteSets, TLC

VARIABLES
    base_df,      \* TableIndexer.base_df
    indexed_df,   \* TableIndexer.indexed_df
    ret,          \* the mapping returned by the latest index call (held by the caller)
    call,         \* the arguments of the latest index call
    since,        \* what happened since the latest call: history
    chain,        \* history: the calls so far form a chain over returned mappings
    cmp,          \* history: the latest call repeated the one before; did the mappings agree
    store,        \* the persisted mapping table: a set of (key, index) rows
    store0,       \* history: the table before any process touched it
    proc,         \* per writer process: its position, candidate keys, loaded mapping, new pairs
    commits,      \* history: the processes in the order their merges committed
    supplied,     \* history: the dataset handed to the constructor
    indexed_kinds,\* history: per entity kind indexed on this indexer, its latest call
    prior,        \* history: the columns and the kinds indexed before the latest call
    naming,       \* a source column name and the index column name made of it
    engine,       \* the Spark runtime: the detected environment and its session
    ws,           \* the SparkWorkstation singleton and its attributes
    tix,          \* the outcome of the latest TableIndexer construction
    mode,         \* history: what happened since the workstation entered Databricks mode
    polished      \* the columns handed to polish and the columns it returned

indexer_vars ==
    <<base_df, indexed_df, ret, call, since, chain, cmp, supplied, indexed_kinds, prior>>
store_vars == <<store, store0, proc, commits>>
session_vars == <<engine, ws, tix, mode>>
vars ==
    <<base_df, indexed_df, ret, call, since, chain, cmp, store, store0, proc, commits,
      supplied, indexed_kinds, prior, naming, engine, ws, tix, mode, polished>>

----------------------------------------------------------------------------
(* Bounds of the model *)

\* longest dataset handed to a TableIndexer, in rows
MaxRows == 2
\* most (key, index) rows of a caller-supplied existing mapping
MaxExisting == 2
\* longest column name handed to _create_index_column_name, in tokens
MaxNameTokens == 3

----------------------------------------------------------------------------
(* Text *)

Range(s) == {s[i] : i \in 1..Len(s)}

\* the characters of the model in the order of their code points (Spark
\* compares strings by their UTF-8 bytes)
Alphabet ==
    <<"\t", " ", "-", "0", "1", "2", "3", "4", "5", "6", "7", "8", "9",
      "A", "B", "C", "D", "E", "F", "G", "H", "I", "J", "K", "L", "M",
      "N", "O", "P", "Q", "R", "S", "T", "U", "V", "W", "X", "Y", "Z", "_",
      "a", "b", "c", "d", "e", "f", "g", "h", "i", "j", "k", "l", "m",
      "n", "o", "p", "q", "r", "s", "t", "u", "v", "w", "x", "y", "z", "|">>

Code == [c \in Range(Alphabet) |-> CHOOSE i \in 1..Len(Alphabet) : Alphabet[i] = c]

Digits == {"0", "1", "2", "3", "4", "5", "6", "7", "8", "9"}

\* F.upper on one character
UpperChar == [c \in Range(Alphabet) |->
                 IF Code[c] >= Code["a"] /\ Code[c] <= Code["z"]
                 THEN Alphabet[Code[c] - Code["a"] + Code["A"]]
                 ELSE c]

Null == <<"<NULL>">>
Empty == <<>>
NullIndex == -1

\* byte-wise lexicographic order, the order of Window.orderBy on a string column
StrLess(a, b) ==
    \E i \in 1..(Len(a) + 1) :
        /\ \A j \in 1..(i - 1) : j <= Len(b) /\ a[j] = b[j]
        /\ \/ i > Len(a) /\ i <= Len(b)
           \/ i <= Len(a) /\ i <= Len(b) /\ Code[a[i]] < Code[b[i]]

RECURSIVE TrimLeft(_)
TrimLeft(s) == IF s # <<>> /\ Head(s) = " " THEN TrimLeft(Tail(s)) ELSE s

RECURSIVE TrimRight(_)
TrimRight(s) ==
    IF s # <<>> /\ s[Len(s)] = " " THEN TrimRight(SubSeq(s, 1, Len(s) - 1)) ELSE s

\* F.trim: removes the space characters at both ends
Trim(s) == TrimRight(TrimLeft(s))

\* F.upper
Upper(s) == [i \in 1..Len(s) |-> UpperChar[s[i]]]

RECURSIVE LeadingZeros(_)
LeadingZeros(s) == IF s # <<>> /\ Head(s) = "0" THEN 1 + LeadingZeros(Tail(s)) ELSE 0

\* F.regexp_replace(s, r"^0+(?=\d)", ""): the longest run of leading zeros that
\* is followed by a digit is removed.  With z leading zeros: all z when a digit
\* follows the run, else z - 1 (the last zero is the digit looked ahead at),
\* which is no match when z = 1.
StripLeadingZeros(s) ==
    LET z == LeadingZeros(s)
        n == IF z = 0 THEN 0
             ELSE IF z < Len(s) /\ s[z + 1] \in Digits THEN z
             ELSE z - 1
    IN  SubSeq(s, n + 1, Len(s))

\* TableIndexer._normalize_entity_value on one value (NULL stays NULL)
NormalizeEntityValue(v) == IF v = Null THEN Null ELSE StripLeadingZeros(Upper(Trim(v)))

\* F.concat_ws(sep, ...): joins the non-NULL values; NULL values are skipped
RECURSIVE ConcatWs(_, _)
ConcatWs(sep, vals) ==
    IF vals = <<>> THEN <<>>
    ELSE LET rest == ConcatWs(sep, Tail(vals))
             more == \E i \in 2..Len(vals) : vals[i] # Null
         IN  IF Head(vals) = Null THEN rest
             ELSE IF more THEN Head(vals) \o <<sep>> \o rest
             ELSE Head(vals)

\* a slip: the fields joined as they are, not normalized
CreateCompositeKeyRaw(vals) == ConcatWs("|", vals)

\* TableIndexer._create_composite_key on the values of the listed columns
CreateCompositeKey(vals) ==
    ConcatWs("|", [i \in 1..Len(vals) |-> NormalizeEntityValue(vals[i])])

----------------------------------------------------------------------------
(* DataFrames *)

\* A column name is a sequence of tokens: the prefixes "FK__", "PK__" and
\* "index__" are tokens of their own, the rest of a name is one opaque token.
ColZsource == <<"zsource">>
ColCustomerName == <<"customer_name">>

\* TableIndexer._create_index_column_name
CreateIndexColumnName(source_entity_col) ==
    LET replaced == [i \in 1..Len(source_entity_col) |->
                        IF source_entity_col[i] \in {"FK__", "PK__"}
                        THEN "index__" ELSE source_entity_col[i]]
    IN  IF replaced # <<>> /\ replaced[1] = "index__"
        THEN replaced
        ELSE <<"index__">> \o source_entity_col

RECURSIVE Without(_, _)
Without(s, x) ==
    IF s = <<>> THEN <<>>
    ELSE IF Head(s) = x THEN Without(Tail(s), x)
    ELSE <<Head(s)>> \o Without(Tail(s), x)

\* a slip: nothing dropped
DropNothing(df, name) == df

\* DataFrame.drop(name): no effect when the frame has no such column
Drop(df, name) ==
    [columns |-> Without(df.columns, name),
     rows    |-> [i \in 1..Len(df.rows) |->
                     [c \in (DOMAIN df.rows[i]) \ {name} |-> df.rows[i][c]]]]

\* normalized_expr of index() on one row: the normalized value of a single
\* source column, or the composite key of a list of source columns
NormalizedExpr(source_entity_cols, row) ==
    IF Len(source_entity_cols) = 1
    THEN NormalizeEntityValue(row[source_entity_cols[1]])
    ELSE CreateCompositeKey([i \in 1..Len(source_entity_cols) |->
                                row[source_entity_cols[i]]])

\* a slip: the filter of NULL and "" left out
InputEntitiesUnfiltered(df, source_entity_cols) ==
    {NormalizedExpr(source_entity_cols, df.rows[i]) : i \in 1..Len(df.rows)}

\* input_entities of index(): select, distinct, filter not NULL and not ""
InputEntities(df, source_entity_cols) ==
    {NormalizedExpr(source_entity_cols, df.rows[i]) : i \in 1..Len(df.rows)}
        \ {Null, Empty}

----------------------------------------------------------------------------
(* Index allocation *)

Keys(pairs) == {p.key : p \in pairs}
Indices(pairs) == {p.idx : p \in pairs}

\* existing_mapping of index() before dropDuplicates: keys normalized again,
\* rows with a NULL or empty key filtered out
NormalizedExisting(pairs) ==
    {q \in {[key |-> NormalizeEntityValue(p.key), idx |-> p.idx] : p \in pairs} :
        q.key # Null /\ q.key # Empty}

\* a slip: the existing mapping used as it was read, repeated keys included
KeepDuplicates(pairs) == {pairs}

\* dropDuplicates([normalized_entity]): one row per key survives; Spark keeps
\* whichever row of the key arrives first, so every selection is an outcome
DropDuplicates(pairs) ==
    {m \in SUBSET pairs :
        \A k \in Keys(pairs) : Cardinality({p \in m : p.key = k}) = 1}

\* a slip: the number of rows instead of the largest index
MaxIndexAsCount(pairs) == Cardinality(pairs)

\* existing_mapping.agg(F.max(index_col)).first(), with the default 0 of
\* max_index when the mapping has no row (F.max skips NULL)
MaxIndex(pairs) ==
    LET given == Indices(pairs) \ {NullIndex}
    IN  IF given = {} THEN 0
        ELSE CHOOSE m \in given : \A i \in given : i <= m

\* a slip: row numbers counted from 0
RowNumberFromZero(k, S) == Cardinality({j \in S : StrLess(j, k)})

\* a slip: the window ordered descending
RowNumberDescending(k, S) == Cardinality({j \in S : StrLess(k, j)}) + 1

\* F.row_number().over(Window.orderBy(normalized_entity)) for key k among the
\* distinct keys S
RowNumber(k, S) == Cardinality({j \in S : StrLess(j, k)}) + 1

\* a slip: the union numbered afresh, existing keys included
AppendRenumbering(em_max, em, input_entities) ==
    LET all == Keys(em) \cup input_entities
    IN  {[key |-> k, idx |-> RowNumber(k, all)] : k \in all}

\* the branch append_new_entities=True: em_max is the evaluation of
\* existing_mapping that max_index is read from, em the evaluation the returned
\* plan unions with the new entities
AppendNewEntities(em_max, em, input_entities) ==
    LET max_index == MaxIndex(em_max)
        new_entities == input_entities \ Keys(em)
    IN  IF new_entities = {} THEN em
        ELSE em \cup {[key |-> k, idx |-> RowNumber(k, new_entities) + max_index] :
                         k \in new_entities}

\* the branch existing_mapping_df is None
FreshMapping(input_entities) ==
    {[key |-> k, idx |-> RowNumber(k, input_entities)] : k \in input_entities}

\* a slip: the append flag ignored
IndexMappingsAlwaysAppend(input_entities, existing, append_new_entities) ==
    IF ~existing.present THEN {FreshMapping(input_entities)}
    ELSE LET ems == DropDuplicates(NormalizedExisting(existing.pairs))
         IN  UNION {{AppendNewEntities(em_max, em, input_entities) : em \in ems} :
                       em_max \in ems}

\* every mapping index() can return for these candidate keys and arguments
IndexMappings(input_entities, existing, append_new_entities) ==
    IF ~existing.present THEN {FreshMapping(input_entities)}
    ELSE LET ems == DropDuplicates(NormalizedExisting(existing.pairs))
         IN  IF append_new_entities
             THEN UNION {{AppendNewEntities(em_max, em, input_entities) : em \in ems} :
                            em_max \in ems}
             ELSE ems

\* mapping is a lazy plan: the caller collecting the returned mapping and the
\* join inside focal_indexed evaluate it separately, and dropDuplicates may keep
\* another row of a repeated key each time.  The new entities carry the indices
\* computed from max_index, which index() collected once (.first()), so the
\* two evaluations agree on them.
JoinMappings(mapping, existing) ==
    IF ~existing.present THEN {mapping}
    ELSE LET read == NormalizedExisting(existing.pairs)
             new_entities == {p \in mapping : p.key \notin Keys(read)}
         IN  {existing_mapping \cup new_entities :
                 existing_mapping \in DropDuplicates(read)}

\* integers of a set in ascending order
RECURSIVE Ascending(_)
Ascending(S) ==
    IF S = {} THEN <<>>
    ELSE LET m == CHOOSE x \in S : \A y \in S : x <= y
         IN  <<m>> \o Ascending(S \ {m})

\* the left join of index(): one output row per matching mapping row, one row
\* with a NULL index when no mapping row matches (NULL = key is never true)
RECURSIVE LeftJoin(_, _, _, _)
LeftJoin(rows, mapping, source_entity_cols, index_col_name) ==
    IF rows = <<>> THEN <<>>
    ELSE LET row == Head(rows)
             k == NormalizedExpr(source_entity_cols, row)
             hits == Ascending({p.idx : p \in {q \in mapping : k # Null /\ q.key = k}})
             out == IF hits = <<>>
                    THEN <<row @@ (index_col_name :> NullIndex)>>
                    ELSE [i \in 1..Len(hits) |-> row @@ (index_col_name :> hits[i])]
         IN  out \o LeftJoin(Tail(rows), mapping, source_entity_cols, index_col_name)

\* a slip: the joined dataset cut to its first row
FocalIndexedTruncated(df, mapping, source_entity_cols) ==
    LET index_col_name == CreateIndexColumnName(source_entity_cols[1])
        dropped == Drop(df, index_col_name)
        joined == LeftJoin(dropped.rows, mapping, source_entity_cols, index_col_name)
    IN  [columns |-> dropped.columns \o <<index_col_name>>,
         rows    |-> IF joined = <<>> THEN <<>> ELSE <<Head(joined)>>]

\* focal_indexed of index(): drop the index column if present, join, append
FocalIndexed(df, mapping, source_entity_cols) ==
    LET index_col_name == CreateIndexColumnName(source_entity_cols[1])
        dropped == Drop(df, index_col_name)
    IN  [columns |-> dropped.columns \o <<index_col_name>>,
         rows    |-> LeftJoin(dropped.rows, mapping, source_entity_cols, index_col_name)]

----------------------------------------------------------------------------
(* Inputs *)

SAP == <<"S", "A", "P">>
Oracle == <<"O", "r", "a", "c", "l", "e">>
Acme == <<"A", "c", "m", "e">>
AcmePadded == <<" ", "A", "C", "M", "E", " ">>
Zenith == <<"Z", "e", "n", "i", "t", "h">>
NovaRetail == <<"N", "o", "v", "a", " ", "R", "e", "t", "a", "i", "l">>

KeyACME == <<"A", "C", "M", "E">>
KeyZENITH == <<"Z", "E", "N", "I", "T", "H">>
KeyNOVA == <<"N", "O", "V", "A", " ", "R", "E", "T", "A", "I", "L">>

Row(z, c) == (ColZsource :> z) @@ (ColCustomerName :> c)

\* the rows datasets are made of
RowPool ==
    {Row(SAP, Acme), Row(SAP, AcmePadded), Row(Oracle, Zenith),
     Row(SAP, NovaRetail), Row(Null, Null)}

SeqsUpTo(S, n) == UNION {[1..m -> S] : m \in 0..n}

Datasets ==
    {[columns |-> <<ColZsource, ColCustomerName>>, rows |-> r] :
        r \in SeqsUpTo(RowPool, MaxRows)}


\* the (key, index) rows a caller-supplied existing mapping is made of
PairPool ==
    {[key |-> k, idx |-> i] : k \in {KeyACME, Zenith, Empty}, i \in {1, 2}}

NoExisting == [present |-> FALSE, kind |-> "customer", pairs |-> {}]

SuppliedMappings ==
    {[present |-> TRUE, kind |-> "customer", pairs |-> ps] :
        ps \in {s \in SUBSET PairPool : Cardinality(s) <= MaxExisting}}

NoCmp == [after |-> "none", same |-> TRUE]

NoCall ==
    [made |-> FALSE, cols |-> <<>>, kind |-> "customer",
     existing |-> NoExisting, append |-> TRUE]

NoPrior == [columns |-> <<>>, kinds |-> {}]

NoNaming == [source |-> <<>>, index |-> <<>>]

\* no session: the value None of a session reference
NoSession == 0

\* the runtime, the workstation and the indexer construction where they play no part
NoEngine == [databricks |-> FALSE, active |-> NoSession, made |-> 0]
NoWorkstation ==
    [instance |-> FALSE, spark |-> NoSession, is_initialized |-> FALSE,
     is_databricks |-> FALSE]
NoIndexer ==
    [made |-> FALSE, raised |-> FALSE, base_df |-> FALSE, indexed_df |-> FALSE,
     session_before |-> FALSE]
NoMode == [entered |-> FALSE, stopped |-> FALSE, created |-> FALSE, raised |-> FALSE]
NoPolish == [input |-> <<>>, output |-> <<>>, done |-> FALSE]

\* the values of one column, row by row
ColumnValues(df, name) == [i \in 1..Len(df.rows) |-> df.rows[i][name]]

\* the writer processes of the persisted mode
Procs == {"p1", "p2"}

IdleProc == [pc |-> "idle", candidates |-> {}, loaded |-> {}, new_pairs |-> {}]

----------------------------------------------------------------------------
(* Operations *)

Init ==
    /\ base_df \in Datasets
    /\ indexed_df = base_df
    /\ ret = NoExisting
    /\ call = NoCall
    /\ since = "constructed"
    /\ chain = FALSE
    /\ cmp = NoCmp
    /\ store = {}
    /\ store0 = {}
    /\ proc = [p \in Procs |-> IdleProc]
    /\ commits = <<>>
    /\ supplied = base_df
    /\ indexed_kinds = {}
    /\ prior = NoPrior
    /\ naming = NoNaming
    /\ engine = NoEngine
    /\ ws = NoWorkstation
    /\ tix = NoIndexer
    /\ mode = NoMode
    /\ polished = NoPolish

\* TableIndexer.__init__ on a new dataset
Construct(df_entities) ==
    /\ base_df' = df_entities
    /\ indexed_df' = df_entities
    /\ since' = "constructed"
    /\ call' = NoCall
    /\ cmp' = NoCmp
    /\ supplied' = df_entities
    /\ indexed_kinds' = {}
    /\ prior' = NoPrior
    /\ UNCHANGED <<ret, chain>>
    /\ UNCHANGED <<store_vars, naming, session_vars, polished>>

\* TableIndexer.__init__ on the rows of the current dataset in another order,
\* rows repeated or repetitions removed
ConstructRearranged(df_entities) ==
    /\ since = "returned"
    /\ df_entities # base_df
    /\ Range(df_entities.rows) = Range(base_df.rows)
    /\ base_df' = df_entities
    /\ indexed_df' = df_entities
    /\ since' = "rearranged"
    /\ cmp' = NoCmp
    /\ supplied' = df_entities
    /\ indexed_kinds' = {}
    /\ prior' = NoPrior
    /\ UNCHANGED <<ret, call, chain>>
    /\ UNCHANGED <<store_vars, naming, session_vars, polished>>

\* a slip: index() assigns the joined frame to base_df as well
IndexInPlace(source_entity_cols, entity_kind, existing, append_new_entities) ==
    /\ existing.present => existing.kind = entity_kind
    /\ \E mapping \in IndexMappings(InputEntities(indexed_df, source_entity_cols),
                                    existing, append_new_entities) :
        LET args == [made |-> TRUE, cols |-> source_entity_cols, kind |-> entity_kind,
                     existing |-> existing, append |-> append_new_entities]
        IN  /\ ret' = [present |-> TRUE, kind |-> entity_kind, pairs |-> mapping]
            /\ \E joined \in JoinMappings(mapping, existing) :
                   indexed_df' = FocalIndexed(indexed_df, joined, source_entity_cols)
            /\ call' = args
            /\ cmp' = IF args = call /\ since \in {"returned", "rearranged"}
                      THEN [after |-> since, same |-> mapping = ret.pairs]
                      ELSE NoCmp
            /\ chain' = IF existing.present
                        THEN chain /\ append_new_entities /\ existing = ret
                        ELSE TRUE
            /\ indexed_kinds' =
                   {e \in indexed_kinds : e.kind # entity_kind} \cup
                   {[kind |-> entity_kind, cols |-> source_entity_cols,
                     column |-> CreateIndexColumnName(source_entity_cols[1]),
                     values |-> ColumnValues(
                                    indexed_df',
                                    CreateIndexColumnName(source_entity_cols[1]))]}
    /\ prior' = [columns |-> indexed_df.columns, kinds |-> indexed_kinds]
    /\ since' = "returned"
    /\ base_df' = indexed_df'
    /\ UNCHANGED supplied
    /\ UNCHANGED <<store_vars, naming, session_vars, polished>>

\* TableIndexer.index
Index(source_entity_cols, entity_kind, existing, append_new_entities) ==
    /\ existing.present => existing.kind = entity_kind
    /\ \E mapping \in IndexMappings(InputEntities(indexed_df, source_entity_cols),
                                    existing, append_new_entities) :
        LET args == [made |-> TRUE, cols |-> source_entity_cols, kind |-> entity_kind,
                     existing |-> existing, append |-> append_new_entities]
        IN  /\ ret' = [present |-> TRUE, kind |-> entity_kind, pairs |-> mapping]
            /\ \E joined \in JoinMappings(mapping, existing) :
                   indexed_df' = FocalIndexed(indexed_df, joined, source_entity_cols)
            /\ call' = args
            /\ cmp' = IF args = call /\ since \in {"returned", "rearranged"}
                      THEN [after |-> since, same |-> mapping = ret.pairs]
                      ELSE NoCmp
            /\ chain' = IF existing.present
                        THEN chain /\ append_new_entities /\ existing = ret
                        ELSE TRUE
            /\ indexed_kinds' =
                   {e \in indexed_kinds : e.kind # entity_kind} \cup
                   {[kind |-> entity_kind, cols |-> source_entity_cols,
                     column |-> CreateIndexColumnName(source_entity_cols[1]),
                     values |-> ColumnValues(
                                    indexed_df',
                                    CreateIndexColumnName(source_entity_cols[1]))]}
    /\ prior' = [columns |-> indexed_df.columns, kinds |-> indexed_kinds]
    /\ since' = "returned"
    /\ UNCHANGED <<base_df, supplied>>
    /\ UNCHANGED <<store_vars, naming, session_vars, polished>>

\* the caller's choice of an existing mapping: none, or one of its own
SuppliedOrNone == {NoExisting} \cup SuppliedMappings

\* index() with a single source column name, on a fresh indexer
IndexSingle ==
    /\ since = "constructed"
    /\ \E existing \in SuppliedOrNone, append \in BOOLEAN :
           Index(<<ColCustomerName>>, "customer", existing, append)

\* TableIndexer.customer, on a fresh indexer
Customer ==
    /\ since = "constructed"
    /\ \E existing \in SuppliedOrNone, append \in BOOLEAN :
           Index(<<ColZsource, ColCustomerName>>, "customer", existing, append)

\* the latest call made again with the same arguments, on the indexer it
\* extended or on a rearranged copy of its dataset
IndexAgain ==
    /\ call.made
    /\ Index(call.cols, call.kind, call.existing, call.append)

Rearranged == \E df \in Datasets : ConstructRearranged(df)

Next == IndexSingle \/ Customer \/ IndexAgain \/ Rearranged

Spec == Init /\ [][Next]_vars

\* A caller that threads mappings through indexers (the demo's Test 1 to 3):
\* customer() with no existing mapping or with the mapping the previous call
\* returned, each time on any indexer.
CustomerChained ==
    \E existing \in {NoExisting, ret}, append \in BOOLEAN :
        Index(<<ColZsource, ColCustomerName>>, "customer", existing, append)

NewIndexer == \E df \in Datasets : Construct(df)

NextChain == CustomerChained \/ NewIndexer

SpecChain == Init /\ [][NextChain]_vars

----------------------------------------------------------------------------
(* Properties of index() *)

\* the latest step was an index call, and call / ret describe it
Returned == since = "returned" /\ call.made

\* the candidate keys of the latest call: the rows of indexed_df are those the
\* call read, with one more column
Candidates == InputEntities(indexed_df, call.cols)

Bijective(pairs) == \A p, q \in pairs : (p.key = q.key) <=> (p.idx = q.idx)

\* the supplied existing mapping as index() reads it
ExistingRead == NormalizedExisting(call.existing.pairs)

OnePerKey(pairs, all) ==
    /\ pairs \subseteq all
    /\ \A k \in {p.key : p \in all} : Cardinality({p \in pairs : p.key = k}) = 1

LargestIndex(pairs) ==
    IF pairs = {} THEN 0 ELSE CHOOSE m \in {p.idx : p \in pairs} : \A p \in pairs : p.idx <= m

AscendingByKey(pairs) ==
    \A p, q \in pairs : StrLess(p.key, q.key) => p.idx < q.idx

\* C1 as stated: every mapping index() returns is a bijection between keys and
\* indices, whatever existing mapping was supplied.
C1_ReturnedMappingBijective == Returned => Bijective(ret.pairs)

\* C1 amended: when the supplied existing mapping, read with normalized keys and
\* without its null or empty keys, is itself a bijection (or none is supplied),
\* the returned mapping is a bijection.
C1_BijectionPreserved ==
    (Returned /\ Bijective(ExistingRead)) => Bijective(ret.pairs)

C1_Witness ==
    /\ Returned /\ call.existing.present /\ call.append
    /\ Bijective(ExistingRead)
    /\ Cardinality(ExistingRead) >= 1
    /\ Cardinality(ret.pairs) >= Cardinality(ExistingRead) + 2

\* C2 as stated: every (key, index) pair of the supplied existing mapping is in
\* the returned mapping.
C2_SuppliedPairsKept ==
    (Returned /\ call.existing.present) => call.existing.pairs \subseteq ret.pairs

\* C2 amended: of the supplied pairs, read with normalized keys and without
\* null or empty keys, every pair whose key has a single index is returned
\* unchanged, every key keeps exactly one of the indices supplied for it, and no
\* returned pair of an existing key carries an index that was not supplied.
C2_ReadPairsKept ==
    (Returned /\ call.existing.present) =>
        /\ \A p \in ExistingRead :
               (\A q \in ExistingRead : q.key = p.key => q.idx = p.idx) => p \in ret.pairs
        /\ OnePerKey({p \in ret.pairs : p.key \in Keys(ExistingRead)}, ExistingRead)

C2_Witness ==
    /\ Returned /\ call.existing.present /\ call.append
    /\ \E p \in call.existing.pairs : p.idx = 2 /\ p \in ret.pairs
    /\ \E p \in call.existing.pairs : p \notin ret.pairs
    /\ Keys(ret.pairs) \ Keys(ExistingRead) # {}

C4_FreshIndicesOneToN ==
    (Returned /\ ~call.existing.present) =>
        /\ Keys(ret.pairs) = Candidates
        /\ Cardinality(ret.pairs) = Cardinality(Candidates)
        /\ {p.idx : p \in ret.pairs} = 1..Cardinality(Candidates)
        /\ AscendingByKey(ret.pairs)

C4_Witness ==
    /\ Returned /\ ~call.existing.present
    /\ Len(call.cols) = 1
    /\ ret.pairs = {[key |-> KeyNOVA, idx |-> 1], [key |-> KeyZENITH, idx |-> 2]}
    /\ indexed_df.rows[1][ColCustomerName] = Zenith

\* C5 as stated: index() on a rearrangement of the dataset (rows permuted,
\* repeated or de-duplicated), with the same arguments, returns the same mapping.
C5_RearrangedSameMapping == cmp.after = "rearranged" => cmp.same

\* C6 as stated: index() called again on the same indexer with the same
\* arguments returns the same mapping.
C6_AgainSameMapping == cmp.after = "returned" => cmp.same

\* C7 as stated: with append_new_entities=False the returned mapping has exactly
\* the keys of the existing mapping, and rows with other keys get a null index.
C7_NoAppendKeysOfSupplied ==
    (Returned /\ call.existing.present /\ ~call.append) =>
        /\ Keys(ret.pairs) = Keys(call.existing.pairs)
        /\ \A i \in 1..Len(indexed_df.rows) :
               NormalizedExpr(call.cols, indexed_df.rows[i]) \notin Keys(call.existing.pairs)
                   => indexed_df.rows[i][CreateIndexColumnName(call.cols[1])] = NullIndex

\* C7 amended: the returned mapping has exactly the non-null, non-empty
\* normalized keys of the existing mapping, each with an index supplied for it;
\* no other candidate key is in it, and every row whose normalized key is not
\* one of them has a null index.
C7_NoAppendKeysOfRead ==
    (Returned /\ call.existing.present /\ ~call.append) =>
        /\ OnePerKey(ret.pairs, ExistingRead)
        /\ Keys(ret.pairs) = Keys(ExistingRead)
        /\ (Candidates \ Keys(ExistingRead)) \cap Keys(ret.pairs) = {}
        /\ \A i \in 1..Len(indexed_df.rows) :
               NormalizedExpr(call.cols, indexed_df.rows[i]) \notin Keys(ExistingRead)
                   => indexed_df.rows[i][CreateIndexColumnName(call.cols[1])] = NullIndex

\* the example of the claim: {ACME:1} against the candidates ACME and NOVA RETAIL
C7_Witness ==
    /\ Returned /\ call.existing.present /\ ~call.append
    /\ Len(call.cols) = 1
    /\ call.existing.pairs = {[key |-> KeyACME, idx |-> 1]}
    /\ Candidates = {KeyACME, KeyNOVA}
    /\ ret.pairs = {[key |-> KeyACME, idx |-> 1]}
    /\ \E i \in 1..Len(indexed_df.rows) :
           /\ indexed_df.rows[i][ColCustomerName] = NovaRetail
           /\ indexed_df.rows[i][CreateIndexColumnName(ColCustomerName)] = NullIndex

\* C10: along a chain of calls that starts with no existing mapping and hands
\* each call the mapping the previous call returned, with
\* append_new_entities=True, the indices of the returned mapping are exactly
\* 1..|mapping|.
C10_ChainIndicesConsecutive ==
    (Returned /\ chain) =>
        {p.idx : p \in ret.pairs} = 1..Cardinality(ret.pairs)

C10_Witness ==
    /\ Returned /\ chain /\ call.existing.present /\ call.append
    /\ Cardinality(call.existing.pairs) = 2
    /\ Cardinality(ret.pairs) = 3
    /\ base_df.rows # <<>>

----------------------------------------------------------------------------
(* Persisted mode: the mapping store and its writers.  The repository holds no
   store; load and mergeInsertOnly follow sections 4.3 and 5 of the
   specification.  Each writer loads the table, allocates indices for its
   candidate keys with index() in append mode, and merges the new pairs. *)

KeyA == <<"A">>
KeyB == <<"B">>
KeyX == <<"X">>

StoreKeys == {KeyA, KeyB, KeyX}

\* the tables the writers may find
InitialStores == {{}, {[key |-> KeyB, idx |-> 1]}}

\* load: the rows of the table, the lowest index kept for a repeated key
LoadMapping(table) ==
    {p \in table : \A q \in table : q.key = p.key => p.idx <= q.idx}

\* a store that overwrites: rows of the same key are replaced
MergeOverwrite(table, new_pairs) ==
    {p \in table : p.key \notin Keys(new_pairs)} \cup new_pairs

\* mergeInsertOnly: one atomic statement that inserts the pairs whose key the
\* table does not hold and updates nothing
MergeInsertOnly(table, new_pairs) ==
    table \cup {p \in new_pairs : p.key \notin Keys(table)}

InitStore ==
    /\ base_df = [columns |-> <<ColZsource, ColCustomerName>>, rows |-> <<>>]
    /\ indexed_df = base_df
    /\ ret = NoExisting
    /\ call = NoCall
    /\ since = "constructed"
    /\ chain = FALSE
    /\ cmp = NoCmp
    /\ store \in InitialStores
    /\ store0 = store
    /\ proc \in [Procs -> {[pc |-> "start", candidates |-> c, loaded |-> {}, new_pairs |-> {}] :
                              c \in (SUBSET StoreKeys) \ {{}}}]
    /\ commits = <<>>
    /\ supplied = base_df
    /\ indexed_kinds = {}
    /\ prior = NoPrior
    /\ naming = NoNaming
    /\ engine = NoEngine
    /\ ws = NoWorkstation
    /\ tix = NoIndexer
    /\ mode = NoMode
    /\ polished = NoPolish

\* load(namespace, entityKind)
StoreLoad(p) ==
    /\ proc[p].pc = "start"
    /\ proc' = [proc EXCEPT ![p].pc = "loaded", ![p].loaded = LoadMapping(store)]
    /\ UNCHANGED <<store, store0, commits>>
    /\ UNCHANGED <<indexer_vars, naming, session_vars, polished>>

\* index(..., existing_mapping_df=loaded, append_new_entities=True) on the
\* writer's dataset; the new pairs are what the call added to the loaded mapping
StoreAllocate(p) ==
    /\ proc[p].pc = "loaded"
    /\ \E mapping \in IndexMappings(proc[p].candidates,
                                    [present |-> TRUE, kind |-> "customer",
                                     pairs |-> proc[p].loaded], TRUE) :
           proc' = [proc EXCEPT ![p].pc = "allocated",
                                ![p].new_pairs = mapping \ proc[p].loaded]
    /\ UNCHANGED <<store, store0, commits>>
    /\ UNCHANGED <<indexer_vars, naming, session_vars, polished>>

\* mergeInsertOnly(namespace, entityKind, newPairs)
StoreMerge(p) ==
    /\ proc[p].pc = "allocated"
    /\ store' = MergeInsertOnly(store, proc[p].new_pairs)
    /\ commits' = Append(commits, p)
    /\ proc' = [proc EXCEPT ![p].pc = "merged"]
    /\ UNCHANGED store0
    /\ UNCHANGED <<indexer_vars, naming, session_vars, polished>>

Load == \E p \in Procs : StoreLoad(p)
Allocate == \E p \in Procs : StoreAllocate(p)
Merge == \E p \in Procs : StoreMerge(p)

NextStore == Load \/ Allocate \/ Merge

SpecStore == InitStore /\ [][NextStore]_vars

----------------------------------------------------------------------------
(* Properties of the persisted mode *)

AllMerged == \A p \in Procs : proc[p].pc = "merged"

\* both writers proposed key k, with different indices
RacedOn(k) ==
    /\ \A p \in Procs : k \in Keys(proc[p].new_pairs)
    /\ \E p, q \in Procs : \E a \in proc[p].new_pairs, b \in proc[q].new_pairs :
           a.key = k /\ b.key = k /\ a.idx # b.idx

\* C8: after two merges that proposed different indices for the same unseen
\* key against an empty table, the table holds exactly one row of that key, and
\* it is the row of the merge that committed first.
C8_RaceLeavesFirstCommit ==
    \A k \in StoreKeys :
        (store0 = {} /\ AllMerged /\ RacedOn(k)) =>
            {p \in store : p.key = k} =
                {p \in proc[commits[1]].new_pairs : p.key = k}

C8_Witness ==
    /\ store0 = {} /\ AllMerged /\ RacedOn(KeyX)
    /\ commits = <<"p2", "p1">>
    /\ Cardinality({p \in store : p.key = KeyX}) = 1

\* C9 as stated: whatever the interleaving of the two writers, no two rows of
\* the table share a key and no two rows share an index.
C9_StoreBijective == Bijective(store)

----------------------------------------------------------------------------
(* Normalization: index() on datasets whose values differ in case, in
   surrounding whitespace, in leading zeros, in NULL fields and in fields that
   contain the delimiter. *)

AcmeLower == <<"a", "c", "m", "e">>
AcmeTab == <<"A", "c", "m", "e", "\t">>
Zeros == <<"0", "0", "0">>
ZeroZeroOne == <<"0", "0", "1">>
One == <<"1">>
ZeroZeroA == <<"0", "0", "A">>
Blank == <<" ">>
AB == <<"A", "|", "B">>
BC == <<"B", "|", "C">>

NormRowPool ==
    {Row(SAP, Acme), Row(SAP, AcmePadded), Row(SAP, AcmeLower), Row(SAP, AcmeTab),
     Row(SAP, Zeros), Row(SAP, ZeroZeroOne), Row(SAP, One), Row(SAP, ZeroZeroA),
     Row(Null, SAP), Row(SAP, Null), Row(Null, Null), Row(Blank, Blank),
     Row(AB, <<"C">>), Row(<<"A">>, BC)}

NormDatasets ==
    {[columns |-> <<ColZsource, ColCustomerName>>, rows |-> r] :
        r \in SeqsUpTo(NormRowPool, MaxRows)}

\* existing mappings with NULL, empty and blank keys
NormExisting ==
    {NoExisting,
     [present |-> TRUE, kind |-> "customer",
      pairs |-> {[key |-> Null, idx |-> 1], [key |-> Blank, idx |-> 2]}],
     [present |-> TRUE, kind |-> "customer",
      pairs |-> {[key |-> Empty, idx |-> 1], [key |-> KeyACME, idx |-> 2]}]}

InitNorm ==
    /\ base_df \in NormDatasets
    /\ indexed_df = base_df
    /\ ret = NoExisting
    /\ call = NoCall
    /\ since = "constructed"
    /\ chain = FALSE
    /\ cmp = NoCmp
    /\ store = {}
    /\ store0 = {}
    /\ proc = [p \in Procs |-> IdleProc]
    /\ commits = <<>>
    /\ supplied = base_df
    /\ indexed_kinds = {}
    /\ prior = NoPrior
    /\ naming = NoNaming
    /\ engine = NoEngine
    /\ ws = NoWorkstation
    /\ tix = NoIndexer
    /\ mode = NoMode
    /\ polished = NoPolish

\* index() with a single source column name
IndexColumn ==
    /\ since = "constructed"
    /\ \E existing \in NormExisting, append \in BOOLEAN :
           Index(<<ColCustomerName>>, "customer", existing, append)

\* index() with a list of source columns
IndexComposite ==
    /\ since = "constructed"
    /\ \E existing \in NormExisting, append \in BOOLEAN :
           Index(<<ColZsource, ColCustomerName>>, "customer", existing, append)

NextNorm == IndexColumn \/ IndexComposite

SpecNorm == InitNorm /\ [][NextNorm]_vars

----------------------------------------------------------------------------
(* Properties of normalization *)

Whitespace == {" ", "\t"}

RECURSIVE StripLeft(_, _)
StripLeft(s, chars) ==
    IF s # <<>> /\ Head(s) \in chars THEN StripLeft(Tail(s), chars) ELSE s

RECURSIVE StripRight(_, _)
StripRight(s, chars) ==
    IF s # <<>> /\ s[Len(s)] \in chars
    THEN StripRight(SubSeq(s, 1, Len(s) - 1), chars) ELSE s

\* a raw value without its surrounding whitespace and without letter case
Folded(v) == Upper(StripRight(StripLeft(v, Whitespace), Whitespace))

\* the index column of the latest call
IndexColumnName == CreateIndexColumnName(call.cols[1])

IndexOfRow(i) == indexed_df.rows[i][IndexColumnName]

RowIds == 1..Len(indexed_df.rows)

\* C11 as stated: two rows whose raw values differ only in letter case and in
\* leading or trailing whitespace carry the same index after index() on that
\* column.
C11_CaseAndWhitespaceShareIndex ==
    (Returned /\ Len(call.cols) = 1) =>
        \A i, j \in RowIds :
            LET v == indexed_df.rows[i][call.cols[1]]
                w == indexed_df.rows[j][call.cols[1]]
            IN  (v # Null /\ w # Null /\ Folded(v) = Folded(w)) =>
                    IndexOfRow(i) = IndexOfRow(j)

\* the leading-zero rule as the specification words it
ZeroRule(t) ==
    LET rest == StripLeft(t, {"0"})
    IN  IF rest = <<>> /\ t # <<>> THEN <<"0">> ELSE rest

\* C12 as stated: the key of a value is its trimmed, upper-cased text without
\* its run of leading zeros, "0" if that text is all zeros, so no key starts
\* with "0" unless it is "0".
C12_LeadingZerosStripped ==
    (Returned /\ Len(call.cols) = 1 /\ ~call.existing.present) =>
        /\ Keys(ret.pairs) =
               {ZeroRule(Upper(Trim(indexed_df.rows[i][call.cols[1]]))) :
                   i \in {r \in RowIds : indexed_df.rows[r][call.cols[1]] # Null}}
                       \ {Empty}
        /\ \A p \in ret.pairs : p.key[1] = "0" => p.key = <<"0">>

\* the fields of row i in the order of the latest call's source columns
FieldsOfRow(i) == [c \in 1..Len(call.cols) |-> indexed_df.rows[i][call.cols[c]]]

NormalizedFields(i) ==
    [c \in 1..Len(call.cols) |-> NormalizeEntityValue(FieldsOfRow(i)[c])]

NoNullField(i) == \A c \in 1..Len(call.cols) : FieldsOfRow(i)[c] # Null

\* C13: after index() on a list of two source columns, a row without NULL
\* fields is indexed under the key made of its first normalized field, the
\* delimiter and its second normalized field, and two such rows whose fields
\* have the same normalized values carry the same index.
C13_CompositeKeyOfNormalizedFields ==
    (Returned /\ Len(call.cols) = 2) =>
        /\ \A i \in {r \in RowIds : NoNullField(r)} :
               LET k == NormalizedFields(i)[1] \o <<"|">> \o NormalizedFields(i)[2]
               IN  /\ (~call.existing.present \/ call.append) => k \in Keys(ret.pairs)
                   /\ \/ [key |-> k, idx |-> IndexOfRow(i)] \in ret.pairs
                      \/ k \notin Keys(ret.pairs) /\ IndexOfRow(i) = NullIndex
        /\ \A i, j \in {r \in RowIds : NoNullField(r)} :
               NormalizedFields(i) = NormalizedFields(j) => IndexOfRow(i) = IndexOfRow(j)

\* the example of the claim: (SAP, "001") and (SAP, "1")
C13_Witness ==
    /\ Returned /\ Len(call.cols) = 2 /\ ~call.existing.present
    /\ Len(indexed_df.rows) = 2
    /\ FieldsOfRow(1) = <<SAP, ZeroZeroOne>>
    /\ FieldsOfRow(2) = <<SAP, One>>
    /\ ret.pairs = {[key |-> <<"S", "A", "P", "|", "1">>, idx |-> 1]}
    /\ IndexOfRow(1) = 1 /\ IndexOfRow(2) = 1

\* C14 as stated: after index() on a list of source columns, two rows carry
\* the same index only if their normalized fields are equal in every position.
C14_SameIndexOnlyForEqualFields ==
    (Returned /\ Len(call.cols) = 2) =>
        \A i, j \in RowIds :
            (IndexOfRow(i) # NullIndex /\ IndexOfRow(i) = IndexOfRow(j)) =>
                NormalizedFields(i) = NormalizedFields(j)

\* C15: no returned mapping has a NULL or empty key, and a row whose
\* normalized key is NULL or empty has a NULL index.
C15_NullAndEmptyKeysNotIndexed ==
    Returned =>
        /\ Null \notin Keys(ret.pairs)
        /\ Empty \notin Keys(ret.pairs)
        /\ \A i \in RowIds :
               NormalizedExpr(call.cols, indexed_df.rows[i]) \in {Null, Empty} =>
                   IndexOfRow(i) = NullIndex

C15_Witness ==
    /\ Returned /\ call.existing.present /\ call.append
    /\ Null \in Keys(call.existing.pairs)
    /\ Blank \in Keys(call.existing.pairs)
    /\ Len(call.cols) = 1
    /\ Len(indexed_df.rows) = 2
    /\ FieldsOfRow(1) = <<Null>> /\ IndexOfRow(1) = NullIndex
    /\ IndexOfRow(2) = 1

----------------------------------------------------------------------------
(* Several entity kinds on one indexer: customer(), plant(), material() and
   index() with a single column, called in any order and any number of times
   (the demo's Test 1, 5 and 6). *)

ColPlantLocation == <<"plant_location">>
ColMaterialCode == <<"material_code">>

Plant001 == <<"P", "l", "a", "n", "t", "0", "0", "1">>
Plant009 == <<"P", "l", "a", "n", "t", "0", "0", "9">>
Sku001 == <<"S", "K", "U", "0", "0", "1">>
Sku002 == <<"S", "K", "U", "0", "0", "2">>

FactRow(z, c, p, m) ==
    (ColZsource :> z) @@ (ColCustomerName :> c) @@ (ColPlantLocation :> p) @@
    (ColMaterialCode :> m)

FactRowPool ==
    {FactRow(SAP, Acme, Plant001, Sku001), FactRow(Oracle, Zenith, Plant009, Sku002),
     FactRow(SAP, NovaRetail, Plant001, Sku002)}

FactDatasets ==
    {[columns |-> <<ColZsource, ColCustomerName, ColPlantLocation, ColMaterialCode>>,
      rows |-> r] : r \in SeqsUpTo(FactRowPool, MaxRows)}

InitKinds ==
    /\ base_df \in FactDatasets
    /\ indexed_df = base_df
    /\ ret = NoExisting
    /\ call = NoCall
    /\ since = "constructed"
    /\ chain = FALSE
    /\ cmp = NoCmp
    /\ store = {}
    /\ store0 = {}
    /\ proc = [p \in Procs |-> IdleProc]
    /\ commits = <<>>
    /\ supplied = base_df
    /\ indexed_kinds = {}
    /\ prior = NoPrior
    /\ naming = NoNaming
    /\ engine = NoEngine
    /\ ws = NoWorkstation
    /\ tix = NoIndexer
    /\ mode = NoMode
    /\ polished = NoPolish

\* TableIndexer.plant
Plant == Index(<<ColZsource, ColPlantLocation>>, "plant", NoExisting, TRUE)

\* TableIndexer.material
Material == Index(<<ColZsource, ColMaterialCode>>, "material", NoExisting, TRUE)

\* index() with a single source column name, for the customer or the plant kind
IndexKind ==
    \/ Index(<<ColCustomerName>>, "customer", NoExisting, TRUE)
    \/ Index(<<ColPlantLocation>>, "plant", NoExisting, TRUE)

NextKinds == CustomerChained \/ Plant \/ Material \/ IndexKind

SpecKinds == InitKinds /\ [][NextKinds]_vars

----------------------------------------------------------------------------
(* Properties of the columns of indexed_df *)

Count(s, x) == Cardinality({i \in 1..Len(s) : s[i] = x})

NoNameTwice(columns) == \A c \in Range(columns) : Count(columns, c) = 1

\* C16 as stated: indexed_df has the original columns and one index column
\* per entity kind indexed so far, and the index column of every kind still
\* holds the indices that kind's latest call put there.
C16_OneIndexColumnPerKind ==
    Returned =>
        /\ SubSeq(indexed_df.columns, 1, Len(base_df.columns)) = base_df.columns
        /\ Len(indexed_df.columns) = Len(base_df.columns) + Cardinality(indexed_kinds)
        /\ \A e \in indexed_kinds :
               /\ e.column \in Range(indexed_df.columns)
               /\ ColumnValues(indexed_df, e.column) = e.values

\* the latest call indexed a kind again with the source columns of its earlier
\* call, on an indexed_df that had the index column
Reindexed ==
    /\ Returned
    /\ \E e \in prior.kinds :
           /\ e.kind = call.kind /\ e.cols = call.cols
           /\ e.column \in Range(prior.columns)

\* C17 as stated: re-indexing leaves the list of column names as it was, with
\* no name twice.
C17_ReindexSameColumnList ==
    Reindexed =>
        /\ indexed_df.columns = prior.columns
        /\ NoNameTwice(indexed_df.columns)

\* C17 amended: re-indexing leaves the same column names, each once; the index
\* column is moved to the end of the list and the other columns keep their
\* order.
C17_ReindexSameColumnNames ==
    Reindexed =>
        /\ Range(indexed_df.columns) = Range(prior.columns)
        /\ Len(indexed_df.columns) = Len(prior.columns)
        /\ NoNameTwice(indexed_df.columns)
        /\ indexed_df.columns =
               Without(prior.columns, IndexColumnName) \o <<IndexColumnName>>

\* a re-run of customer() after another kind added its column behind
C17_Witness ==
    /\ Reindexed
    /\ call.kind = "customer" /\ call.cols = <<ColCustomerName>>
    /\ prior.columns # indexed_df.columns
    /\ Cardinality(indexed_kinds) = 2
    /\ indexed_df.rows # <<>>

\* C18 as stated: once customer(zsource_col, customer_code_col) has run,
\* indexed_df has exactly one column named index__<customer_code_col>.
C18_OneCustomerCodeIndexColumn ==
    \A e \in indexed_kinds :
        (e.kind = "customer" /\ Len(e.cols) = 2) =>
            Count(indexed_df.columns, <<"index__">> \o e.cols[2]) = 1

\* C20: base_df is the dataset the constructor was given, whatever calls were
\* made since.
C20_BaseDfNotMutated == base_df = supplied

C20_Witness ==
    /\ Returned
    /\ base_df = supplied
    /\ indexed_df # base_df
    /\ Cardinality(indexed_kinds) = 3
    /\ Len(indexed_df.columns) > Len(base_df.columns)
    /\ base_df.rows # <<>>

----------------------------------------------------------------------------
(* Index column naming: _create_index_column_name on column names made of the
   prefixes and of plain text, the prefixes at any position. *)

NameTokens == {"FK__", "PK__", "index__", "customer", "id"}

ColumnNames == UNION {[1..n -> NameTokens] : n \in 1..MaxNameTokens}

InitNaming ==
    /\ base_df = [columns |-> <<ColZsource, ColCustomerName>>, rows |-> <<>>]
    /\ indexed_df = base_df
    /\ ret = NoExisting
    /\ call = NoCall
    /\ since = "constructed"
    /\ chain = FALSE
    /\ cmp = NoCmp
    /\ store = {}
    /\ store0 = {}
    /\ proc = [p \in Procs |-> IdleProc]
    /\ commits = <<>>
    /\ supplied = base_df
    /\ indexed_kinds = {}
    /\ prior = NoPrior
    /\ naming \in {[source |-> n, index |-> <<>>] : n \in ColumnNames}
    /\ engine = NoEngine
    /\ ws = NoWorkstation
    /\ tix = NoIndexer
    /\ mode = NoMode
    /\ polished = NoPolish

\* index_col_name = self._create_index_column_name(primary_col)
NameIndexColumn ==
    /\ naming.index = <<>>
    /\ naming' = [naming EXCEPT !.index = CreateIndexColumnName(naming.source)]
    /\ UNCHANGED <<indexer_vars, store_vars, session_vars, polished>>

NextNaming == NameIndexColumn

SpecNaming == InitNaming /\ [][NextNaming]_vars

\* the index column name as the specification words it
PrefixReplaced(name) ==
    IF name[1] \in {"FK__", "PK__"}
    THEN <<"index__">> \o Tail(name)
    ELSE <<"index__">> \o name

\* C19 as stated: a name that begins with FK__ or PK__ gives "index__" and the
\* name without that prefix, any other name gives "index__" and the name, and
\* the result starts with "index__".
C19_PrefixReplacedOrPrepended ==
    naming.index # <<>> =>
        /\ naming.index = PrefixReplaced(naming.source)
        /\ naming.index[1] = "index__"

\* ---------------------------------------------------------------------------
\* Read repair of an existing mapping that holds one key several times
\* ---------------------------------------------------------------------------

\* the lowest index the existing mapping, as index() reads it, holds for key k
LowestIndex(pairs, k) ==
    CHOOSE i \in {p.idx : p \in {q \in pairs : q.key = k}} :
        \A p \in pairs : p.key = k => i <= p.idx

\* an existing mapping that, once normalized, holds one key with two indices
DuplicateKeyRead ==
    \E p, q \in ExistingRead : p.key = q.key /\ p.idx # q.idx

\* C23 as stated: when the existing mapping holds one normalized key with
\* several indices, the returned mapping keeps for that key the lowest of them.
C23_LowestIndexKept ==
    (Returned /\ call.existing.present /\ DuplicateKeyRead) =>
        \A p \in ret.pairs :
            p.key \in Keys(ExistingRead) => p.idx = LowestIndex(ExistingRead, p.key)

\* ---------------------------------------------------------------------------
\* Independence of the entity kinds
\* ---------------------------------------------------------------------------

\* the mappings a new indexer on base_df, with no kind indexed yet, can return
\* for the arguments of the latest call
MappingsOnBaseDf ==
    IndexMappings(InputEntities(base_df, call.cols), call.existing, call.append)

\* C24: the mapping index() returns for a kind is one a new indexer on the
\* same dataset returns for the same source columns and the same existing
\* mapping, whichever kinds were indexed before on this indexer and in
\* whichever order.
C24_MappingIndependentOfOtherKinds == Returned => ret.pairs \in MappingsOnBaseDf

C24_Witness ==
    /\ Returned
    /\ call.kind = "material"
    /\ {e.kind : e \in prior.kinds} = {"customer", "plant"}
    /\ Len(base_df.rows) = 2
    /\ Cardinality(ret.pairs) = 2
    /\ ret.pairs \in MappingsOnBaseDf

----------------------------------------------------------------------------
(* The Spark session manager (tool__workstation.py): the SparkWorkstation
   singleton, the module functions stop_spark, restart_spark, is_spark_active
   and inject_spark_for_databricks, and the constructor of TableIndexer, which
   asks is_spark_active.

   A session is a positive number; engine.active is the session of the
   running SparkContext (the one SparkSession.getActiveSession and
   builder.getOrCreate return), NoSession when no session is running.  A
   session that was stopped never runs again. *)

MaxSessions == 3

Sessions == 1..MaxSessions

\* _is_session_active on session s: SELECT 1 succeeds on a running session only
Running(e, s) == s # NoSession /\ s = e.active

\* _is_databricks_environment: the environment variables and the ambient
\* spark global do not change during a behaviour
IsDatabricksEnvironment(e) == e.databricks

\* SparkWorkstation(): __new__ hands out the one instance and __init__ runs on
\* it again, keeping _spark
Constructed(w, e) ==
    [w EXCEPT !.instance = TRUE, !.is_initialized = FALSE,
              !.is_databricks = IsDatabricksEnvironment(e)]

\* _get_existing_databricks_session: the running session if there is one
GetExistingDatabricksSession(e) == e.active

\* SparkSession.stop on session s
Stopped(e, s) == IF Running(e, s) THEN [e EXCEPT !.active = NoSession] ELSE e

\* SparkSession.builder.getOrCreate: the running session, or a new one
CanGetOrCreate(e) == e.active # NoSession \/ e.made < MaxSessions

GetOrCreate(e) ==
    IF e.active # NoSession THEN e
    ELSE [e EXCEPT !.active = e.made + 1, !.made = e.made + 1]

\* the workstation and the runtime after a method, with what the method did to
\* sessions
Outcome(w, e, stopped, created, raised) ==
    [ws |-> w, engine |-> e, stopped |-> stopped, created |-> created, raised |-> raised]

\* stop_session
StopSessionOf(w, e) ==
    IF w.spark # NoSession /\ ~w.is_databricks
    THEN Outcome([w EXCEPT !.spark = NoSession, !.is_initialized = FALSE],
                 Stopped(e, w.spark), Running(e, w.spark), FALSE, FALSE)
    ELSE Outcome(w, e, FALSE, FALSE, FALSE)

\* start_session
StartSessionOf(w, e) ==
    IF w.is_databricks
    THEN LET existing_session == GetExistingDatabricksSession(e)
         IN  IF existing_session # NoSession
             THEN Outcome([w EXCEPT !.spark = existing_session, !.is_initialized = TRUE],
                          e, FALSE, FALSE, FALSE)
             ELSE Outcome(w, e, FALSE, FALSE, TRUE)
    ELSE LET s == StopSessionOf(w, e)
             built == GetOrCreate(s.engine)
         IN  Outcome([s.ws EXCEPT !.spark = built.active, !.is_initialized = TRUE],
                     built, s.stopped, built.made # e.made, FALSE)

CanStartSession(w, e) == w.is_databricks \/ CanGetOrCreate(StopSessionOf(w, e).engine)

\* restart_session
RestartSessionOf(w, e) ==
    LET s == IF ~w.is_databricks THEN StopSessionOf(w, e)
             ELSE Outcome(w, e, FALSE, FALSE, FALSE)
        t == StartSessionOf(s.ws, s.engine)
    IN  Outcome(t.ws, t.engine, s.stopped \/ t.stopped, t.created, t.raised)

\* the workstation is in Databricks mode
DatabricksMode(w) == w.instance /\ w.is_databricks

\* the history of a call of the session manager with outcome o: what happened
\* to sessions since Databricks mode was entered, and whether this call raised
Recorded(o) ==
    [entered |-> mode.entered \/ DatabricksMode(o.ws),
     stopped |-> mode.stopped \/ (mode.entered /\ o.stopped),
     created |-> mode.created \/ (mode.entered /\ o.created),
     raised  |-> o.raised]

Apply(o) ==
    /\ ws' = o.ws
    /\ engine' = o.engine
    /\ mode' = Recorded(o)
    /\ UNCHANGED tix
    /\ UNCHANGED <<indexer_vars, store_vars, naming, polished>>

InitWork ==
    /\ engine \in {[databricks |-> d, active |-> a, made |-> a] :
                      d \in BOOLEAN, a \in {NoSession, 1}}
    /\ ws = NoWorkstation
    /\ tix = NoIndexer
    /\ mode = NoMode
    /\ base_df = [columns |-> <<ColZsource, ColCustomerName>>, rows |-> <<>>]
    /\ indexed_df = base_df
    /\ ret = NoExisting
    /\ call = NoCall
    /\ since = "constructed"
    /\ chain = FALSE
    /\ cmp = NoCmp
    /\ store = {}
    /\ store0 = {}
    /\ proc = [p \in Procs |-> IdleProc]
    /\ commits = <<>>
    /\ supplied = base_df
    /\ indexed_kinds = {}
    /\ prior = NoPrior
    /\ naming = NoNaming
    /\ polished = NoPolish

\* SparkWorkstation()
Construction == Apply(Outcome(Constructed(ws, engine), engine, FALSE, FALSE, FALSE))

\* workstation.start_session()
StartSession ==
    /\ ws.instance
    /\ CanStartSession(ws, engine)
    /\ Apply(StartSessionOf(ws, engine))

\* workstation.stop_session()
StopSession ==
    /\ ws.instance
    /\ Apply(StopSessionOf(ws, engine))

\* workstation.restart_session()
RestartSession ==
    /\ ws.instance
    /\ CanStartSession(StopSessionOf(ws, engine).ws, StopSessionOf(ws, engine).engine)
    /\ Apply(RestartSessionOf(ws, engine))

\* stop_spark()
StopSpark == Apply(StopSessionOf(Constructed(ws, engine), engine))

\* restart_spark()
RestartSpark ==
    LET w == Constructed(ws, engine)
    IN  /\ CanStartSession(StopSessionOf(w, engine).ws, StopSessionOf(w, engine).engine)
        /\ Apply(RestartSessionOf(w, engine))

\* inject_spark_for_databricks(spark_session), with the running session
InjectSparkForDatabricks ==
    /\ engine.active # NoSession
    /\ Apply(Outcome([Constructed(ws, engine) EXCEPT !.spark = engine.active,
                                                     !.is_initialized = TRUE,
                                                     !.is_databricks = TRUE],
                     engine, FALSE, FALSE, FALSE))

\* is_spark_active(): in a Databricks environment getOrCreate and SELECT 1,
\* False when either raises; elsewhere SparkWorkstation.is_active()
IsSparkActive(w, e) ==
    IF IsDatabricksEnvironment(e)
    THEN (IF CanGetOrCreate(e)
          THEN {[active |-> TRUE, ws |-> w, engine |-> GetOrCreate(e)]} ELSE {})
         \cup
         (IF e.active = NoSession
          THEN {[active |-> FALSE, ws |-> w, engine |-> e]} ELSE {})
    ELSE {[active |-> Running(e, Constructed(w, e).spark), ws |-> Constructed(w, e),
           engine |-> e]}

\* TableIndexer(df_entities)
NewTableIndexer ==
    /\ \E r \in IsSparkActive(ws, engine) :
           /\ ws' = r.ws
           /\ engine' = r.engine
           /\ tix' = [made |-> TRUE, raised |-> ~r.active, base_df |-> r.active,
                      indexed_df |-> r.active,
                      session_before |-> engine.active # NoSession]
    /\ UNCHANGED mode
    /\ UNCHANGED <<indexer_vars, store_vars, naming, polished>>

NextWork ==
    \/ Construction
    \/ StartSession
    \/ StopSession
    \/ RestartSession
    \/ StopSpark
    \/ RestartSpark
    \/ InjectSparkForDatabricks
    \/ NewTableIndexer

SpecWork == InitWork /\ [][NextWork]_vars

\* C22 as stated: a TableIndexer constructed while no Spark session is running
\* raises RuntimeError and sets neither base_df nor indexed_df.
C22_NoSessionRaises ==
    (tix.made /\ ~tix.session_before) =>
        (tix.raised /\ ~tix.base_df /\ ~tix.indexed_df)

\* C26 as stated: once the workstation has been in Databricks mode, no
\* construction, stop, restart or start stops the held session or creates a
\* new session.
C26_DatabricksSessionKept == mode.entered => (~mode.stopped /\ ~mode.created)

----------------------------------------------------------------------------
(* The column names polish() returns (tool__table_polisher.py).  Only the
   names and their order are modelled: the cleaning of the keyP__/keyF__
   values replaces each such column in place and changes neither. *)

MaxColumns == 3

IndexPrefix == <<"i", "n", "d", "e", "x", "_", "_">>
KeyPPrefix == <<"k", "e", "y", "p", "_", "_">>
KeyFPrefix == <<"k", "e", "y", "f", "_", "_">>
CodeSuffix == <<"_", "c", "o", "d", "e">>

\* str.lower on one character
LowerChar == [c \in Range(Alphabet) |->
                 IF Code[c] >= Code["A"] /\ Code[c] <= Code["Z"]
                 THEN Alphabet[Code[c] - Code["A"] + Code["a"]]
                 ELSE c]

\* str.lower
Lower(s) == [i \in 1..Len(s) |-> LowerChar[s[i]]]

StartsWith(s, prefix) ==
    Len(s) >= Len(prefix) /\ SubSeq(s, 1, Len(prefix)) = prefix

EndsWith(s, suffix) ==
    Len(s) >= Len(suffix) /\ SubSeq(s, Len(s) - Len(suffix) + 1, Len(s)) = suffix

\* the characters polish() replaces by an underscore
Separators == {" ", ",", ";", "{", "}", "(", ")", "\n", "\t", "=", "-"}

\* the chain of str.replace calls of polish()
ReplaceSeparators(s) == [i \in 1..Len(s) |-> IF s[i] \in Separators THEN "_" ELSE s[i]]

\* str.strip(): the whitespace at both ends removed
StripWhitespace(s) == StripRight(StripLeft(s, {" ", "\t", "\n"}), {" ", "\t", "\n"})

\* new_col of polish()
NewCol(name) ==
    Lower(StripRight(StripLeft(ReplaceSeparators(StripWhitespace(name)), {"_"}), {"_"}))

\* DataFrame.withColumnRenamed: every column the name resolves to (without
\* regard to letter case, Spark's default) gets the new name
WithColumnRenamed(columns, old_name, new_name) ==
    [i \in 1..Len(columns) |->
        IF Lower(columns[i]) = Lower(old_name) THEN new_name ELSE columns[i]]

\* the renames of rename_mapping applied one after the other, in the order of
\* the columns they were built from
RECURSIVE ApplyRenames(_, _)
ApplyRenames(columns, names) ==
    IF names = <<>> THEN columns
    ELSE LET name == Head(names)
             renamed == IF NewCol(name) # name
                        THEN WithColumnRenamed(columns, name, NewCol(name))
                        ELSE columns
         IN  ApplyRenames(renamed, Tail(names))

\* _lowercase_columns
RECURSIVE LowercaseColumns(_, _)
LowercaseColumns(columns, names) ==
    IF names = <<>> THEN columns
    ELSE LET name == Head(names)
             renamed == IF Lower(name) # name
                        THEN WithColumnRenamed(columns, name, Lower(name))
                        ELSE columns
         IN  LowercaseColumns(renamed, Tail(names))

\* sorted() on a list of names
RECURSIVE Sorted(_)
Sorted(names) ==
    IF names = <<>> THEN <<>>
    ELSE LET i == CHOOSE k \in 1..Len(names) :
                      \A j \in 1..Len(names) : ~StrLess(names[j], names[k])
             rest == [j \in 1..(Len(names) - 1) |->
                         IF j < i THEN names[j] ELSE names[j + 1]]
         IN  <<names[i]>> \o Sorted(rest)

\* the keys of cols_lower_map in the order of the dict, and the column each
\* key stands for (the last column with that lower-cased name)
RECURSIVE LowerKeys(_)
LowerKeys(columns) ==
    IF columns = <<>> THEN <<>>
    ELSE LET front == LowerKeys(SubSeq(columns, 1, Len(columns) - 1))
             c == Lower(columns[Len(columns)])
         IN  IF c \in Range(front) THEN front ELSE Append(front, c)

ColsLowerMap(columns, c) ==
    columns[CHOOSE i \in 1..Len(columns) :
                /\ Lower(columns[i]) = c
                /\ \A j \in (i + 1)..Len(columns) : Lower(columns[j]) # c]

\* _reorder_columns
ReorderColumns(columns) ==
    LET keys == LowerKeys(columns)
        Named(ks) == [i \in 1..Len(ks) |-> ColsLowerMap(columns, ks[i])]
        index_cols == Sorted(Named(SelectSeq(keys, LAMBDA c : StartsWith(c, IndexPrefix))))
        key_cols == Sorted(Named(SelectSeq(keys,
                        LAMBDA c : StartsWith(c, KeyPPrefix) \/ StartsWith(c, KeyFPrefix))))
        code_cols == Sorted(SelectSeq(Named(SelectSeq(keys,
                        LAMBDA c : EndsWith(c, CodeSuffix))),
                        LAMBDA c : c \notin Range(key_cols)))
        other_cols == Sorted(SelectSeq(columns,
                        LAMBDA c : c \notin Range(index_cols \o key_cols \o code_cols)))
    IN  index_cols \o key_cols \o code_cols \o other_cols

\* polish(df), on the column names
Polish(columns) ==
    LET renamed == ApplyRenames(columns, columns)
    IN  ReorderColumns(LowercaseColumns(renamed, renamed))

\* column names of input datasets
IndexCustomer == IndexPrefix \o <<"c", "u", "s", "t">>
IndexPlantCode == IndexPrefix \o <<"p", "l", "a", "n", "t">> \o CodeSuffix
KeyPCustomer == <<"K", "e", "y", "P", "_", "_", "C", "u", "s", "t">>
KeyFPlantCode == KeyFPrefix \o <<"p", "l", "a", "n", "t">> \o CodeSuffix
ProductCode == <<"P", "r", "o", "d", "_", "C", "o", "d", "e">>
Sales == <<"S", "a", "l", "e", "s">>
OtherField == <<" ", "O", "t", "h", "e", "r", "-", "F", "i", "e", "l", "d">>

PolishNames ==
    {IndexCustomer, IndexPlantCode, KeyPCustomer, KeyFPlantCode, ProductCode, Sales,
     OtherField}

\* the column lists of input datasets: names that differ after renaming
PolishInputs ==
    {c \in SeqsUpTo(PolishNames, MaxColumns) :
        \A i, j \in 1..Len(c) : i # j => c[i] # c[j]}

InitPolish ==
    /\ polished \in {[input |-> c, output |-> <<>>, done |-> FALSE] : c \in PolishInputs}
    /\ base_df = [columns |-> <<ColZsource, ColCustomerName>>, rows |-> <<>>]
    /\ indexed_df = base_df
    /\ ret = NoExisting
    /\ call = NoCall
    /\ since = "constructed"
    /\ chain = FALSE
    /\ cmp = NoCmp
    /\ store = {}
    /\ store0 = {}
    /\ proc = [p \in Procs |-> IdleProc]
    /\ commits = <<>>
    /\ supplied = base_df
    /\ indexed_kinds = {}
    /\ prior = NoPrior
    /\ naming = NoNaming
    /\ engine = NoEngine
    /\ ws = NoWorkstation
    /\ tix = NoIndexer
    /\ mode = NoMode

\* polished = polish(df)
PolishDataset ==
    /\ ~polished.done
    /\ polished' = [polished EXCEPT !.output = Polish(polished.input), !.done = TRUE]
    /\ UNCHANGED <<indexer_vars, store_vars, naming, session_vars>>

NextPolish == PolishDataset

SpecPolish == InitPolish /\ [][NextPolish]_vars

\* the group of a polished column name: 1 index__, 2 keyp__/keyf__, 3 *_code,
\* 4 any other
ColumnGroup(name) ==
    IF StartsWith(name, IndexPrefix) THEN 1
    ELSE IF StartsWith(name, KeyPPrefix) \/ StartsWith(name, KeyFPrefix) THEN 2
    ELSE IF EndsWith(name, CodeSuffix) THEN 3
    ELSE 4

\* C27 as stated: the output holds the renamed, lower-cased name of every
\* input column exactly once, the index__ columns first, then the
\* keyp__/keyf__ columns, then the *_code columns, then the others, each group
\* in alphabetical order.
C27_EveryColumnOnceInGroupOrder ==
    polished.done =>
        LET out == polished.output
        IN  /\ Range(out) = {NewCol(c) : c \in Range(polished.input)}
            /\ \A c \in Range(out) : Count(out, c) = 1
            /\ \A i, j \in 1..Len(out) :
                   i < j => \/ ColumnGroup(out[i]) < ColumnGroup(out[j])
                            \/ /\ ColumnGroup(out[i]) = ColumnGroup(out[j])
                               /\ StrLess(out[i], out[j])

\* ---------------------------------------------------------------------------
\* The join of index() and the rows of indexed_df
\* ---------------------------------------------------------------------------

\* the index the returned mapping assigns to key k, NullIndex when it has none
MappedIndex(k) ==
    IF k # Null /\ k \in Keys(ret.pairs)
    THEN (CHOOSE p \in ret.pairs : p.key = k).idx
    ELSE NullIndex

\* C21 as stated: in the dataset the latest call returned, every row carries
\* in the index column the index the returned mapping assigns to the row's
\* normalized key, and a NULL index exactly when the mapping has no entry for
\* that key.
C21_IndexColumnFollowsMapping ==
    Returned =>
        \A i \in RowIds :
            IndexOfRow(i) = MappedIndex(NormalizedExpr(call.cols, indexed_df.rows[i]))

\* how many times row r is among rows, compared on the columns of base_df
Occurrences(rows, r) ==
    Cardinality({i \in 1..Len(rows) :
                    [c \in Range(base_df.columns) |-> rows[i][c]] = r})

\* C25: after any index calls, with any existing mapping and append flag,
\* indexed_df has the rows of base_df, each as many times as base_df has it,
\* with the values of the columns of base_df unchanged.
C25_RowsOfBaseDfKept ==
    /\ Len(indexed_df.rows) = Len(base_df.rows)
    /\ \A r \in Range(base_df.rows) :
           Occurrences(indexed_df.rows, r) = Occurrences(base_df.rows, r)

C25_Witness ==
    /\ Returned
    /\ call.existing.pairs = {[key |-> KeyACME, idx |-> 1], [key |-> KeyACME, idx |-> 2]}
    /\ base_df.rows = <<Row(SAP, Acme), Row(SAP, AcmePadded)>>
    /\ cmp.after = "returned"
    /\ C25_RowsOfBaseDfKept

====
